---- MODULE Spec2Model ----
(***************************************************************************)
(* Model of the custom-search-filters extension (src/src/extension.ts):    *)
(* the global filter store kept in the user settings (globalFilters and    *)
(* globalFiltersEnabled), the workspace filter file, the legacy globalState*)
(* blob, and the commands that read and write them.                        *)
(*                                                                         *)
(* Strings whose content the code inspects (names, glob pattern lists) are *)
(* sequences of one-character strings, so that trim, split and join are    *)
(* computed as the code computes them.  An optional field that is          *)
(* undefined in the code holds "undef"; JSON serialisation drops such      *)
(* fields, which is the same thing in this representation.                 *)
(***************************************************************************)
EXTENDS Integers, Sequences, FiniteSets, TLC

VARIABLES
    globalFilters,          \* settings value custom-search-filters.globalFilters
    globalFiltersEnabled,   \* settings value custom-search-filters.globalFiltersEnabled
    legacy,                 \* globalState blob under FILTERS_STORAGE_KEY
    projectFile,            \* <workspace>/.vscode/custom-search-filters.json
    hasWorkspace,           \* a workspace folder is open
    active,                 \* activate() has run in this window
    quickPick,              \* the quick pick of selectAndSearch
    last,                   \* what the last handler was given and answered
    ops                     \* number of commands run so far

stores == <<globalFilters, globalFiltersEnabled, projectFile>>
vars == <<globalFilters, globalFiltersEnabled, legacy, projectFile,
          hasWorkspace, active, quickPick, last, ops>>

\* Number of commands run after the first activation in one explored run.
MaxOps == 1

\* ------------------------------------------------------------------ strings

Str(c) == <<c>>
Empty == <<>>
\* A dismissed prompt (undefined in the code); no string contains this character.
NoAnswer == <<"ESC">>

Range(s) == {s[i] : i \in DOMAIN s}

RECURSIVE TrimLeft(_)
TrimLeft(s) == IF s # <<>> /\ Head(s) = " " THEN TrimLeft(Tail(s)) ELSE s

RECURSIVE TrimRight(_)
TrimRight(s) ==
    IF s # <<>> /\ s[Len(s)] = " " THEN TrimRight(SubSeq(s, 1, Len(s) - 1)) ELSE s

Trim(s) == TrimRight(TrimLeft(s))

FirstIndex(s, c) ==
    IF \E i \in DOMAIN s : s[i] = c
    THEN CHOOSE i \in DOMAIN s : s[i] = c /\ \A j \in 1..(i - 1) : s[j] # c
    ELSE 0

RECURSIVE Split(_)
Split(s) ==
    LET i == FirstIndex(s, ",")
    IN  IF i = 0 THEN <<s>>
        ELSE <<SubSeq(s, 1, i - 1)>> \o Split(SubSeq(s, i + 1, Len(s)))

RECURSIVE Join(_)
Join(list) ==
    IF list = <<>> THEN <<>>
    ELSE IF Len(list) = 1 THEN list[1]
    ELSE list[1] \o <<",">> \o Join(Tail(list))

IsNonEmpty(p) == p # <<>>

\* Variant: the pattern is added without looking for it among the segments.
appendToPattern_AlwaysPush(existingPattern, pathToAdd) ==
    IF existingPattern = NoAnswer \/ existingPattern = <<>> \/ Trim(existingPattern) = <<>>
    THEN pathToAdd
    ELSE LET parts == Split(existingPattern)
             trimmed == [i \in DOMAIN parts |-> Trim(parts[i])]
             patterns == SelectSeq(trimmed, IsNonEmpty)
         IN  Join(Append(patterns, pathToAdd))

\* Variant: the segments are joined as they are, untrimmed.
appendToPattern_Untrimmed(existingPattern, pathToAdd) ==
    IF existingPattern = NoAnswer \/ existingPattern = <<>> \/ Trim(existingPattern) = <<>>
    THEN pathToAdd
    ELSE LET parts == Split(existingPattern)
             trimmed == [i \in DOMAIN parts |-> Trim(parts[i])]
             patterns == SelectSeq(trimmed, IsNonEmpty)
         IN  IF pathToAdd \in Range(patterns)
             THEN existingPattern
             ELSE existingPattern \o <<",">> \o pathToAdd

\* Variant: only an absent or empty pattern is replaced, a blank one is a
\* list like any other and its empty segments stay.
appendToPattern_BlankIsList(existingPattern, pathToAdd) ==
    IF existingPattern = NoAnswer \/ existingPattern = <<>>
    THEN pathToAdd
    ELSE LET parts == Split(existingPattern)
             patterns == [i \in DOMAIN parts |-> Trim(parts[i])]
         IN  Join(IF pathToAdd \in Range(patterns)
                  THEN patterns
                  ELSE Append(patterns, pathToAdd))

\* existingPattern is NoAnswer when the caller passes undefined or null.
appendToPattern(existingPattern, pathToAdd) ==
    IF existingPattern = NoAnswer \/ existingPattern = <<>> \/ Trim(existingPattern) = <<>>
    THEN pathToAdd
    ELSE LET parts == Split(existingPattern)
             trimmed == [i \in DOMAIN parts |-> Trim(parts[i])]
             patterns == SelectSeq(trimmed, IsNonEmpty)
         IN  Join(IF pathToAdd \in Range(patterns)
                  THEN patterns
                  ELSE Append(patterns, pathToAdd))

\* ------------------------------------------------------------------ filters

SearchFilter(n, i, e, s, en) ==
    [name |-> n, include |-> i, exclude |-> e, scope |-> s, enabled |-> en]

\* Index of the first filter of the list with the given name, 0 when none
\* (findIndex of the code, whose -1 is 0 here).
findIndexByName(filters, n) ==
    IF \E i \in DOMAIN filters : filters[i].name = n
    THEN CHOOSE i \in DOMAIN filters :
            filters[i].name = n /\ \A j \in 1..(i - 1) : filters[j].name # n
    ELSE 0

Names(filters) == {filters[i].name : i \in DOMAIN filters}

\* ------------------------------------------------------------------- stores

\* f.scope || 'global'
ScopeOrGlobal(f) == IF f.scope = "undef" THEN "global" ELSE f.scope

\* Variant: a filter without an enabled value counts as disabled.
EnabledOrTrue_False(f) == IF f.enabled # "undef" THEN f.enabled ELSE "false"

\* f.enabled !== undefined ? f.enabled : true
EnabledOrTrue(f) == IF f.enabled # "undef" THEN f.enabled ELSE "true"

\* Variant: globalFiltersEnabled is not read, every filter is enabled.
loadGlobalFilters_MapIgnored ==
    [i \in DOMAIN globalFilters |->
        [globalFilters[i] EXCEPT
            !.scope = ScopeOrGlobal(globalFilters[i]),
            !.enabled = "true"]]

loadGlobalFilters ==
    [i \in DOMAIN globalFilters |->
        [globalFilters[i] EXCEPT
            !.scope = ScopeOrGlobal(globalFilters[i]),
            !.enabled = IF globalFilters[i].name \in DOMAIN globalFiltersEnabled
                        THEN globalFiltersEnabled[globalFilters[i].name]
                        ELSE "true"]]

IsGlobalScoped(f) == ScopeOrGlobal(f) = "global"

\* Variant: a filter without a scope is written to the file too.
IsWorkspaceScoped_NotGlobal(f) == f.scope # "global"

\* f.scope === 'workspace'
IsWorkspaceScoped(f) == f.scope = "workspace"

\* Variant: the whole filter object is written.
WithoutEnabled_Keep(f) == f

\* const { enabled, ...filterWithoutEnabled } = f
WithoutEnabled(f) == [f EXCEPT !.enabled = "undef"]

\* Variant: the entries of the stored map are kept next to the new ones.
BuildEnabledMap_KeepOld(filters) ==
    [n \in Names(filters) \cup DOMAIN globalFiltersEnabled |->
        IF n \in Names(filters)
        THEN LET i == CHOOSE k \in DOMAIN filters :
                        filters[k].name = n
                        /\ \A j \in (k + 1)..Len(filters) : filters[j].name # n
             IN  EnabledOrTrue(filters[i])
        ELSE globalFiltersEnabled[n]]

\* forEach over the list: a later filter of the same name overwrites the entry
BuildEnabledMap(filters) ==
    [n \in Names(filters) |->
        LET i == CHOOSE k \in DOMAIN filters :
                    filters[k].name = n
                    /\ \A j \in (k + 1)..Len(filters) : filters[j].name # n
        IN  EnabledOrTrue(filters[i])]

\* The two settings updates are awaited one after the other; w says how far
\* they get: "ok" both, "fail1" the first rejects, "fail2" the second rejects.
saveGlobalFilters(filters, w) ==
    LET onlyGlobal == SelectSeq(filters, IsGlobalScoped)
        filtersToSave == [i \in DOMAIN onlyGlobal |-> WithoutEnabled(onlyGlobal[i])]
        enabledMap == BuildEnabledMap(onlyGlobal)
    IN  [gf |-> IF w \in {"ok", "fail2"} THEN filtersToSave ELSE globalFilters,
         en |-> IF w = "ok" THEN enabledMap ELSE globalFiltersEnabled,
         ok |-> (w = "ok")]

NoFile == [kind |-> "absent", entries |-> <<>>]
\* The file holds text that JSON.parse rejects.
BadFile == [kind |-> "malformed", entries |-> <<>>]
\* The file exists and readFileSync throws.
UnreadableFile == [kind |-> "unreadable", entries |-> <<>>]
\* The file holds JSON that is not an array: filters.map is not a function.
NotListFile == [kind |-> "notlist", entries |-> <<>>]
FileOf(entries) == [kind |-> "list", entries |-> entries]

\* What a caller would see if an exception left the function.
Thrown == <<"exception">>

\* Variant: the stored scope of an entry is kept when it has one.
loadProjectFilters_KeepScope ==
    IF ~hasWorkspace THEN <<>>
    ELSE IF projectFile.kind = "list"
         THEN [i \in DOMAIN projectFile.entries |->
                  [projectFile.entries[i] EXCEPT
                      !.scope = IF @ = "undef" THEN "workspace" ELSE @]]
         ELSE <<>>

\* Variant: every entry is given an enabled value, as loadGlobalFilters does.
loadProjectFilters_StampEnabled ==
    IF ~hasWorkspace THEN <<>>
    ELSE IF projectFile.kind = "list"
         THEN [i \in DOMAIN projectFile.entries |->
                  [projectFile.entries[i] EXCEPT !.scope = "workspace",
                                                 !.enabled = IF @ = "undef" THEN "true" ELSE @]]
         ELSE <<>>

\* Variant: the errors of reading and parsing are not caught.
loadProjectFilters_Uncaught ==
    IF ~hasWorkspace THEN <<>>
    ELSE IF projectFile.kind = "list"
         THEN [i \in DOMAIN projectFile.entries |->
                  [projectFile.entries[i] EXCEPT !.scope = "workspace"]]
         ELSE IF projectFile.kind = "absent" THEN <<>> ELSE Thrown

loadProjectFilters ==
    IF ~hasWorkspace THEN <<>>
    ELSE IF projectFile.kind = "list"
         THEN [i \in DOMAIN projectFile.entries |->
                  [projectFile.entries[i] EXCEPT !.scope = "workspace"]]
         ELSE <<>>

\* Variant: the filters are added to what the file holds.
saveProjectFilters_Merging(filters, w) ==
    IF ~hasWorkspace THEN [pf |-> projectFile, ok |-> FALSE]
    ELSE IF w # "ok" THEN [pf |-> projectFile, ok |-> FALSE]
    ELSE [pf |-> FileOf(projectFile.entries \o SelectSeq(filters, IsWorkspaceScoped)),
          ok |-> TRUE]

\* Variant: the file is written whether or not a folder is open.
saveProjectFilters_NoFolderCheck(filters, w) ==
    IF w # "ok" THEN [pf |-> projectFile, ok |-> FALSE]
    ELSE [pf |-> FileOf(SelectSeq(filters, IsWorkspaceScoped)), ok |-> TRUE]

saveProjectFilters(filters, w) ==
    IF ~hasWorkspace THEN [pf |-> projectFile, ok |-> FALSE]
    ELSE IF w # "ok" THEN [pf |-> projectFile, ok |-> FALSE]
    ELSE [pf |-> FileOf(SelectSeq(filters, IsWorkspaceScoped)), ok |-> TRUE]

LegacyWithScope == [i \in DOMAIN legacy |-> [legacy[i] EXCEPT !.scope = ScopeOrGlobal(legacy[i])]]

\* Variant: the workspace filters come first.
loadAllFilters_ProjectFirst ==
    loadProjectFilters
        \o (IF Len(loadGlobalFilters) > 0 THEN loadGlobalFilters ELSE LegacyWithScope)

loadAllFilters ==
    LET globalFiltersFromSettings == loadGlobalFilters
        globalPart == IF Len(globalFiltersFromSettings) > 0
                      THEN globalFiltersFromSettings
                      ELSE LegacyWithScope
    IN  globalPart \o loadProjectFilters

\* --------------------------------------------------------- migration (94-124)

\* Variant: the settings are not looked at before migrating.
migrateGlobalFiltersFromState_NoSkip(w) ==
    IF Len(legacy) = 0
    THEN [gf |-> globalFilters, en |-> globalFiltersEnabled, ret |-> "none"]
    ELSE LET filtersToMigrate ==
                [i \in DOMAIN legacy |-> [legacy[i] EXCEPT !.enabled = EnabledOrTrue(legacy[i])]]
             r == saveGlobalFilters(filtersToMigrate, w)
         IN  [gf |-> r.gf, en |-> r.en, ret |-> IF r.ok THEN "true" ELSE "false"]

\* Variant: the legacy filters are added to the filters of the settings.
migrateGlobalFiltersFromState_Appending(w) ==
    IF Len(legacy) = 0
    THEN [gf |-> globalFilters, en |-> globalFiltersEnabled, ret |-> "none"]
    ELSE LET filtersToMigrate ==
                [i \in DOMAIN legacy |-> [legacy[i] EXCEPT !.enabled = EnabledOrTrue(legacy[i])]]
             r == saveGlobalFilters(loadGlobalFilters \o filtersToMigrate, w)
         IN  [gf |-> r.gf, en |-> r.en,
              ret |-> IF Len(loadGlobalFilters) > 0 THEN "none"
                      ELSE IF r.ok THEN "true" ELSE "false"]

migrateGlobalFiltersFromState(w) ==
    IF Len(legacy) = 0
    THEN [gf |-> globalFilters, en |-> globalFiltersEnabled, ret |-> "none"]
    ELSE IF Len(loadGlobalFilters) > 0
    THEN [gf |-> globalFilters, en |-> globalFiltersEnabled, ret |-> "none"]
    ELSE LET filtersToMigrate ==
                [i \in DOMAIN legacy |-> [legacy[i] EXCEPT !.enabled = EnabledOrTrue(legacy[i])]]
             r == saveGlobalFilters(filtersToMigrate, w)
         IN  [gf |-> r.gf, en |-> r.en, ret |-> IF r.ok THEN "true" ELSE "false"]

\* Variant: the blob is cleared once its filters are in the settings.
legacyAfterMigration_Cleared(ret) == IF ret = "true" THEN <<>> ELSE legacy

\* The globalState blob after a migration that returned ret: the update that
\* would clear it is commented out (118-119).
legacyAfterMigration(ret) == legacy

\* --------------------------------------------------------- deleteFilter (192-225)

\* Variant: the name is removed from both stores.
deleteFilter_AllScopes(filterToDelete, w) ==
    LET keep(f) == f.name # filterToDelete.name
        rp == saveProjectFilters(SelectSeq(loadProjectFilters, keep), "ok")
        rg == saveGlobalFilters(SelectSeq(loadGlobalFilters, keep), w)
    IN  [gf |-> rg.gf, en |-> rg.en, pf |-> rp.pf, ret |-> rg.ok]

deleteFilter(filterToDelete, w) ==
    LET filterScope == ScopeOrGlobal(filterToDelete)
    IN  IF filterScope = "workspace"
        THEN LET projectFilters == loadProjectFilters
                 keep(f) == ~(f.name = filterToDelete.name /\ f.scope = "workspace")
                 r == saveProjectFilters(SelectSeq(projectFilters, keep), w)
             IN  [gf |-> globalFilters, en |-> globalFiltersEnabled, pf |-> r.pf, ret |-> r.ok]
        ELSE LET gl == loadGlobalFilters
                 keep(f) == f.name # filterToDelete.name
                 r == saveGlobalFilters(SelectSeq(gl, keep), w)
             IN  [gf |-> r.gf, en |-> r.en, pf |-> projectFile, ret |-> r.ok]

\* ----------------------------------------------------------- saveFilter (242-321)

\* Variant: the filter's own scope wins over the scope argument.
InitialScope_OwnFirst(newFilter, scope) ==
    IF newFilter.scope # "undef" THEN newFilter.scope
    ELSE IF scope # "undef" THEN scope
    ELSE "global"

\* scope || newFilter.scope || 'global'
InitialScope(newFilter, scope) ==
    IF scope # "undef" THEN scope
    ELSE IF newFilter.scope # "undef" THEN newFilter.scope
    ELSE "global"

\* !newFilter.scope && !scope
AsksScope(newFilter, scope) == newFilter.scope = "undef" /\ scope = "undef"

\* Variant: the collision check compares names only.
ExistsInScope_AnyScope(filters, n, sc) ==
    \E i \in DOMAIN filters : filters[i].name = n

\* allFilters.find(f => f.name === newFilter.name && f.scope === filterScope)
ExistsInScope(filters, n, sc) ==
    \E i \in DOMAIN filters : filters[i].name = n /\ filters[i].scope = sc

\* Variant: only an explicit 'No' declines.
DeclinesOverwrite_OnlyNo(overwrite) == overwrite = "No"

\* overwrite !== 'Yes'
DeclinesOverwrite(overwrite) == overwrite # "Yes"

\* Variant: a dismissed scope prompt falls through to the default scope.
AbortsOnScope_Never(asked, selectedScope) == FALSE

\* !selectedScope, after the scope prompt was shown
AbortsOnScope(asked, selectedScope) == asked /\ selectedScope = "undef"

\* Variant: the filter is always pushed.
ReplaceOrPush_AlwaysPush(filters, idx, f) == Append(filters, f)

ReplaceOrPush(filters, idx, f) ==
    IF idx > 0 THEN [filters EXCEPT ![idx] = f] ELSE Append(filters, f)

\* Variant: a filter that carries no enabled value is saved as enabled.
WithEnabledOf_AlwaysTrue(nf, gl, existingIndex) ==
    IF nf.enabled # "undef" THEN nf ELSE [nf EXCEPT !.enabled = "true"]

\* newFilter.enabled when it is set, else the enabled value of the filter
\* it replaces, else true (291-306)
WithEnabledOf(nf, gl, existingIndex) ==
    IF nf.enabled # "undef" THEN nf
    ELSE IF existingIndex > 0
    THEN [nf EXCEPT !.enabled = EnabledOrTrue(gl[existingIndex])]
    ELSE [nf EXCEPT !.enabled = "true"]

saveFilter(newFilter, scope, scopeAns, owAns, w) ==
    LET asked == AsksScope(newFilter, scope)
        filterScope == IF asked /\ scopeAns # "undef" THEN scopeAns
                       ELSE InitialScope(newFilter, scope)
        nf == [newFilter EXCEPT !.scope = filterScope]
        existing == ExistsInScope(loadAllFilters, nf.name, filterScope)
        unchanged == [gf |-> globalFilters, en |-> globalFiltersEnabled, pf |-> projectFile,
                      ret |-> FALSE, askedScope |-> asked, askedOw |-> FALSE,
                      filterScope |-> filterScope, wrote |-> "none"]
    IN  IF AbortsOnScope(asked, scopeAns)
        THEN unchanged
        ELSE IF existing /\ DeclinesOverwrite(owAns)
        THEN [unchanged EXCEPT !.askedOw = TRUE]
        ELSE IF filterScope = "workspace"
        THEN LET projectFilters == loadProjectFilters
                 existingIndex == findIndexByName(projectFilters, nf.name)
                 r == saveProjectFilters(ReplaceOrPush(projectFilters, existingIndex, nf), w)
             IN  [gf |-> globalFilters, en |-> globalFiltersEnabled, pf |-> r.pf,
                  ret |-> r.ok, askedScope |-> asked, askedOw |-> existing,
                  filterScope |-> filterScope, wrote |-> "workspace"]
        ELSE LET gl == loadGlobalFilters
                 existingIndex == findIndexByName(gl, nf.name)
                 withEnabled == WithEnabledOf(nf, gl, existingIndex)
                 r == saveGlobalFilters(ReplaceOrPush(gl, existingIndex, withEnabled), w)
             IN  [gf |-> r.gf, en |-> r.en, pf |-> projectFile,
                  ret |-> r.ok, askedScope |-> asked, askedOw |-> existing,
                  filterScope |-> filterScope, wrote |-> "global"]

\* ------------------------------------------------------- editFilter (870-925)

\* The part of the edit command after its prompts: originalFilter is the
\* picked entry of savedFilters, newName the trimmed answer of the name
\* prompt, incAns and excAns the answers of the two pattern prompts.
editFilter(savedFilters, originalFilter, newName, incAns, excAns, w) ==
    LET originalName == originalFilter.name
        filterScope == ScopeOrGlobal(originalFilter)
        updatedFilter ==
            SearchFilter(newName,
                         IF incAns = NoAnswer THEN originalFilter.include ELSE incAns,
                         IF excAns = NoAnswer THEN originalFilter.exclude ELSE excAns,
                         filterScope,
                         originalFilter.enabled)
        conflict == originalName # newName /\ ExistsInScope(savedFilters, newName, filterScope)
    IN  IF conflict
        THEN [gf |-> globalFilters, en |-> globalFiltersEnabled, pf |-> projectFile,
              ret |-> "none", conflict |-> TRUE, scope |-> filterScope]
        ELSE IF filterScope = "workspace"
        THEN LET projectFilters == loadProjectFilters
                 existingIndex == findIndexByName(projectFilters, originalName)
                 r == saveProjectFilters(ReplaceOrPush(projectFilters, existingIndex, updatedFilter), w)
             IN  [gf |-> globalFilters, en |-> globalFiltersEnabled, pf |-> r.pf,
                  ret |-> IF r.ok THEN "true" ELSE "false", conflict |-> FALSE,
                  scope |-> filterScope]
        ELSE LET gl == loadGlobalFilters
                 existingIndex == findIndexByName(gl, originalName)
                 r == saveGlobalFilters(ReplaceOrPush(gl, existingIndex, updatedFilter), w)
             IN  [gf |-> r.gf, en |-> r.en, pf |-> projectFile,
                  ret |-> IF r.ok THEN "true" ELSE "false", conflict |-> FALSE,
                  scope |-> filterScope]

\* ------------------------------------------- batch append (431-441, 560-570)

\* The loop over the candidate patterns: [pattern, addedCount] after the
\* candidates cands[1..k] have been appended to currentPattern.
RECURSIVE AppendLoop(_, _, _)
AppendLoop(currentPattern, cands, k) ==
    IF k = 0 THEN [pattern |-> currentPattern, addedCount |-> 0]
    ELSE LET prev == AppendLoop(currentPattern, cands, k - 1)
             originalLength == Len(prev.pattern)
             next == appendToPattern(prev.pattern, cands[k])
             added == Len(next) > originalLength
                      \/ (currentPattern = <<>> /\ cands[k] # <<>>)
         IN  [pattern |-> next,
              addedCount |-> IF added THEN prev.addedCount + 1 ELSE prev.addedCount]

BatchAppend(currentPattern, cands) == AppendLoop(currentPattern, cands, Len(cands))

\* --------------------------------------------------- selection list (660-666)

\* Variant: workspace filters are hidden by an enabled value too.
IsVisible_EnabledOnly(filter) == filter.enabled # "false"

IsVisible(filter) ==
    IF filter.scope = "workspace" THEN TRUE ELSE filter.enabled # "false"

visibleFilters == SelectSeq(loadAllFilters, IsVisible)

\* ------------------------------------------------------------ input domains

NameA == Str("A")
NameB == Str("B")
PatA == Str("a")
PatB == Str("b")

\* Answers a name prompt accepts (validateInput rejects blank text).
NameInputs == {NameA, <<" ">> \o NameB}
\* Answers typed into a pattern prompt.
PatternInputs == {PatA}
\* Explorer selections, already turned into candidate patterns.
Selections == {<<PatA, PatB>>}

ScopeAnswers == {"global", "workspace", "undef"}
OverwriteAnswers == {"Yes", "No", "undef"}
ConfirmAnswers == {"Delete", "Cancel", "undef"}
WriteOutcomes(sc) == IF sc = "workspace" THEN {"ok", "fail1"} ELSE {"ok", "fail1", "fail2"}

EmptyMap == [n \in {} |-> "true"]
ClosedQuickPick == [open |-> FALSE, items |-> <<>>]

\* ------------------------------------------------------------------ history

BoolStr(b) == IF b THEN "true" ELSE "false"

NoCall == [call |-> "none", ret |-> "none", name |-> Empty, from |-> Empty,
           scope |-> "undef",
           argScope |-> "undef", ownScope |-> "undef",
           askedScope |-> FALSE, askedOw |-> FALSE,
           scopeAns |-> "undef", owAns |-> "undef"]

Last(cmd, dismissed, c) ==
    [cmd |-> cmd, dismissed |-> dismissed, call |-> c.call, ret |-> c.ret,
     name |-> c.name, from |-> c.from, scope |-> c.scope, argScope |-> c.argScope,
     ownScope |-> c.ownScope, askedScope |-> c.askedScope,
     askedOw |-> c.askedOw, scopeAns |-> c.scopeAns, owAns |-> c.owAns]

\* A command handler that has run to its end: the stores it leaves and its record.
Finish(gf, en, pf, l) ==
    /\ globalFilters' = gf
    /\ globalFiltersEnabled' = en
    /\ projectFile' = pf
    /\ last' = l
    /\ ops' = ops + 1
    /\ quickPick' = ClosedQuickPick
    /\ UNCHANGED <<legacy, hasWorkspace, active>>

\* A command handler that returns without calling a store.
Return(cmd, dismissed) ==
    Finish(globalFilters, globalFiltersEnabled, projectFile, Last(cmd, dismissed, NoCall))

CanRun == active /\ ops < MaxOps

\* ------------------------------------------------------------------ actions

\* Installations the extension starts in: what an earlier version left in the
\* globalState blob (no scope field, or scope global; never an enabled field),
\* what this version left in the settings, and the workspace file as the
\* extension or a hand edit left it.
LegacyV1 == <<SearchFilter(NameA, PatA, Empty, "undef", "undef")>>
LegacyV2 == <<SearchFilter(NameA, PatA, Empty, "global", "undef"),
              SearchFilter(NameB, Empty, PatA, "undef", "undef")>>
SettingsA == [gf |-> <<SearchFilter(NameA, PatA, Empty, "global", "undef")>>,
              en |-> [n \in {NameA} |-> "true"]]
SettingsBA == [gf |-> <<SearchFilter(NameB, Empty, Empty, "global", "undef"),
                        SearchFilter(NameA, Empty, PatA, "global", "undef")>>,
               en |-> [n \in {NameA, NameB} |-> IF n = NameA THEN "false" ELSE "true"]]
SettingsNone == [gf |-> <<>>, en |-> EmptyMap]
FileA == FileOf(<<SearchFilter(NameA, PatA, Empty, "workspace", "undef")>>)
FileB == FileOf(<<SearchFilter(NameB, Empty, Empty, "undef", "false")>>)

Scenario(lg, st, ws, pf) == [legacy |-> lg, settings |-> st, hasWorkspace |-> ws, file |-> pf]

Scenarios ==
    {Scenario(<<>>, SettingsNone, TRUE, NoFile),
     Scenario(LegacyV2, SettingsNone, TRUE, NoFile),
     Scenario(LegacyV1, SettingsA, TRUE, FileA),
     Scenario(<<>>, SettingsBA, TRUE, BadFile),
     Scenario(LegacyV1, SettingsNone, FALSE, NoFile),
     Scenario(LegacyV2, SettingsBA, TRUE, FileB)}

Init ==
    /\ \E s \in Scenarios :
        /\ legacy = s.legacy
        /\ globalFilters = s.settings.gf
        /\ globalFiltersEnabled = s.settings.en
        /\ hasWorkspace = s.hasWorkspace
        /\ projectFile = s.file
    /\ active = FALSE
    /\ quickPick = ClosedQuickPick
    /\ last = Last("init", {}, NoCall)
    /\ ops = 0

\* activate (604-613): the window (re)loads and the migration runs.
Activate ==
    /\ active => ops < MaxOps
    /\ \E w \in WriteOutcomes("global") :
        LET r == migrateGlobalFiltersFromState(w)
        IN  /\ globalFilters' = r.gf
            /\ globalFiltersEnabled' = r.en
            /\ legacy' = legacyAfterMigration(r.ret)
            /\ last' = Last("activate", {}, [NoCall EXCEPT !.call = "migrate", !.ret = r.ret])
    /\ active' = TRUE
    /\ ops' = IF active THEN ops + 1 ELSE ops
    /\ quickPick' = ClosedQuickPick
    /\ UNCHANGED <<projectFile, hasWorkspace>>

\* The user ticks or unticks a filter in the settings editor.
UserSetEnabled ==
    /\ CanRun
    /\ \E n \in Names(globalFilters), v \in {"true", "false"} :
        /\ globalFiltersEnabled' =
              [m \in DOMAIN globalFiltersEnabled \cup {n} |->
                  IF m = n THEN v ELSE globalFiltersEnabled[m]]
        /\ last' = Last("userSetEnabled", {}, [NoCall EXCEPT !.name = n])
    /\ ops' = ops + 1
    /\ quickPick' = ClosedQuickPick
    /\ UNCHANGED <<globalFilters, legacy, projectFile, hasWorkspace, active>>

\* The call saveFilter(context, newFilter, scope) that ends a command, with
\* the answers to the prompts it shows.
SaveFilterStep(cmd, newFilter, scope, dismissed) ==
    \E scopeAns \in (IF AsksScope(newFilter, scope) THEN ScopeAnswers ELSE {"undef"}) :
    \E owAns \in (IF saveFilter(newFilter, scope, scopeAns, "undef", "ok").askedOw
                  THEN OverwriteAnswers ELSE {"undef"}) :
    \E w \in (IF saveFilter(newFilter, scope, scopeAns, owAns, "ok").wrote = "none"
              THEN {"ok"}
              ELSE WriteOutcomes(saveFilter(newFilter, scope, scopeAns, owAns, "ok").wrote)) :
        LET r == saveFilter(newFilter, scope, scopeAns, owAns, w)
            dis == dismissed
                   \cup (IF r.askedScope /\ scopeAns = "undef" THEN {"scope"} ELSE {})
                   \cup (IF r.askedOw /\ owAns = "undef" THEN {"overwrite"} ELSE {})
        IN  Finish(r.gf, r.en, r.pf,
                   Last(cmd, dis,
                        [call |-> "saveFilter", ret |-> BoolStr(r.ret),
                         name |-> newFilter.name, from |-> Empty,
                         scope |-> r.filterScope,
                         argScope |-> scope, ownScope |-> newFilter.scope,
                         askedScope |-> r.askedScope, askedOw |-> r.askedOw,
                         scopeAns |-> scopeAns, owAns |-> owAns]))

DismissedOf(ans, prompt) == IF ans = NoAnswer THEN {prompt} ELSE {}
\* answer || ''
OrEmpty(ans) == IF ans = NoAnswer THEN Empty ELSE ans

\* custom-search-filters.addFilter (616-650)
AddFilter ==
    /\ CanRun
    /\ \E nameAns \in NameInputs \cup {NoAnswer} :
        IF nameAns = NoAnswer
        THEN Return("addFilter", {"name"})
        ELSE \E incAns \in PatternInputs \cup {NoAnswer}, excAns \in PatternInputs \cup {NoAnswer} :
                SaveFilterStep("addFilter",
                    SearchFilter(Trim(nameAns), OrEmpty(incAns), OrEmpty(excAns), "undef", "undef"),
                    "undef",
                    DismissedOf(incAns, "include") \cup DismissedOf(excAns, "exclude"))

\* custom-search-filters.editFilter (802-926)
EditFilter ==
    /\ CanRun
    /\ LET savedFilters == loadAllFilters
       IN  IF Len(savedFilters) = 0
           THEN Return("editFilter", {})
           ELSE \E pick \in 0..Len(savedFilters) :
                IF pick = 0
                THEN Return("editFilter", {"pick"})
                ELSE \E nameAns \in NameInputs \cup {NoAnswer} :
                     IF nameAns = NoAnswer
                     THEN Return("editFilter", {"name"})
                     ELSE \E incAns \in PatternInputs \cup {NoAnswer},
                             excAns \in PatternInputs \cup {NoAnswer},
                             w \in WriteOutcomes(ScopeOrGlobal(savedFilters[pick])) :
                          LET r == editFilter(savedFilters, savedFilters[pick],
                                              Trim(nameAns), incAns, excAns, w)
                          IN  Finish(r.gf, r.en, r.pf,
                                     Last("editFilter",
                                          DismissedOf(incAns, "include")
                                              \cup DismissedOf(excAns, "exclude"),
                                          [NoCall EXCEPT !.call = IF r.conflict THEN "conflict" ELSE "edit",
                                                         !.ret = r.ret,
                                                         !.name = Trim(nameAns),
                                                         !.from = savedFilters[pick].name,
                                                         !.scope = r.scope]))

\* The call deleteFilter(context, filterToDelete) and the record of it.
DeleteCall(filterToDelete, r) ==
    [NoCall EXCEPT !.call = "deleteFilter", !.ret = BoolStr(r.ret),
                   !.name = filterToDelete.name,
                   !.scope = ScopeOrGlobal(filterToDelete)]

\* custom-search-filters.deleteFilter (743-768)
DeleteFilter ==
    /\ CanRun
    /\ LET savedFilters == loadAllFilters
       IN  IF Len(savedFilters) = 0
           THEN Return("deleteFilter", {})
           ELSE \E pick \in 0..Len(savedFilters) :
                IF pick = 0
                THEN Return("deleteFilter", {"pick"})
                ELSE \E w \in WriteOutcomes(ScopeOrGlobal(savedFilters[pick])) :
                     LET r == deleteFilter(savedFilters[pick], w)
                     IN  Finish(r.gf, r.en, r.pf,
                                Last("deleteFilter", {}, DeleteCall(savedFilters[pick], r)))

TargetOf(filter, targetPattern) ==
    IF targetPattern = "include" THEN filter.include ELSE filter.exclude

WithTarget(filter, targetPattern, value) ==
    IF targetPattern = "include"
    THEN [filter EXCEPT !.include = value]
    ELSE [filter EXCEPT !.exclude = value]

OtherOf(targetPattern) == IF targetPattern = "include" THEN "exclude" ELSE "include"

\* The branch "Create New Filter..." of both context-menu handlers (398-424, 527-553).
CreateFromSelection(cmd, targetPattern, cands) ==
    \E nameAns \in NameInputs \cup {NoAnswer} :
        IF nameAns = NoAnswer
        THEN Return(cmd, {"name"})
        ELSE \E otherAns \in PatternInputs \cup {NoAnswer} :
                SaveFilterStep(cmd,
                    WithTarget(WithTarget(SearchFilter(Trim(nameAns), Empty, Empty, "undef", "undef"),
                                          targetPattern, Join(cands)),
                               OtherOf(targetPattern), OrEmpty(otherAns)),
                    "undef",
                    DismissedOf(otherAns, "other"))

\* The picker "Append (Combine)" / "Overwrite" and the save that follows it.
ChooseMethodAndSave(cmd, targetPattern, cands, filterToUpdate, batch) ==
    \E addMethod \in (IF batch.addedCount > 0 THEN {"append"} ELSE {}) \cup {"overwrite", "undef"} :
        IF addMethod = "undef"
        THEN Return(cmd, {"method"})
        ELSE SaveFilterStep(cmd,
                WithTarget(filterToUpdate, targetPattern,
                           IF addMethod = "append" THEN batch.pattern ELSE Join(cands)),
                filterToUpdate.scope,
                {})

\* addFolderToFilter (338-473), from the filter picker on.
AddFolderToFilter ==
    /\ CanRun
    /\ \E targetPattern \in {"include", "exclude"}, folderPatterns \in Selections :
       LET savedFilters == loadAllFilters
       IN  \E pick \in (-1)..Len(savedFilters) :
            IF pick = -1 THEN Return("addFolder", {"pick"})
            ELSE IF pick = 0 THEN CreateFromSelection("addFolder", targetPattern, folderPatterns)
            ELSE ChooseMethodAndSave("addFolder", targetPattern, folderPatterns,
                    savedFilters[pick],
                    BatchAppend(TargetOf(savedFilters[pick], targetPattern), folderPatterns))

\* addFileTypeToFilter (477-600), from the filter picker on.
AddFileTypeToFilter ==
    /\ CanRun
    /\ \E targetPattern \in {"include", "exclude"}, fileTypePatterns \in Selections :
       LET savedFilters == loadAllFilters
       IN  \E pick \in (-1)..Len(savedFilters) :
            IF pick = -1 THEN Return("addFileType", {"pick"})
            ELSE IF pick = 0 THEN CreateFromSelection("addFileType", targetPattern, fileTypePatterns)
            ELSE LET batch == BatchAppend(TargetOf(savedFilters[pick], targetPattern),
                                          fileTypePatterns)
                 IN  IF batch.addedCount = 0
                     THEN Return("addFileType", {})
                     ELSE ChooseMethodAndSave("addFileType", targetPattern, fileTypePatterns,
                                              savedFilters[pick], batch)

\* custom-search-filters.selectAndSearch (655-738): the list is shown.
SelectAndSearch ==
    /\ CanRun
    /\ quickPick' = IF Len(visibleFilters) = 0
                    THEN ClosedQuickPick
                    ELSE [open |-> TRUE, items |-> visibleFilters]
    /\ last' = Last("selectAndSearch", {}, NoCall)
    /\ ops' = ops + 1
    /\ UNCHANGED <<globalFilters, globalFiltersEnabled, legacy, projectFile, hasWorkspace, active>>

\* onDidTriggerItemButton (702-716): the delete button of an item of the list.
QuickPickDelete ==
    /\ quickPick.open
    /\ UNCHANGED <<legacy, hasWorkspace, active, ops>>
    /\ \E i \in DOMAIN quickPick.items, confirmed \in ConfirmAnswers :
        IF confirmed # "Delete"
        THEN /\ last' = Last("quickPickDelete",
                             IF confirmed = "undef" THEN {"confirm"} ELSE {}, NoCall)
             /\ UNCHANGED <<globalFilters, globalFiltersEnabled, projectFile, quickPick>>
        ELSE \E w \in WriteOutcomes(ScopeOrGlobal(quickPick.items[i])) :
             LET r == deleteFilter(quickPick.items[i], w)
             IN  /\ globalFilters' = r.gf
                 /\ globalFiltersEnabled' = r.en
                 /\ projectFile' = r.pf
                 /\ last' = Last("quickPickDelete", {}, DeleteCall(quickPick.items[i], r))
                 /\ quickPick' = [open |-> TRUE, items |-> visibleFilters']

\* onDidAccept / onDidHide (719-736): the list is closed.
QuickPickClose ==
    /\ quickPick.open
    /\ quickPick' = ClosedQuickPick
    /\ UNCHANGED <<globalFilters, globalFiltersEnabled, legacy, projectFile,
                   hasWorkspace, active, last, ops>>

Next ==
    \/ Activate
    \/ UserSetEnabled
    \/ AddFilter
    \/ EditFilter
    \/ DeleteFilter
    \/ AddFolderToFilter
    \/ AddFileTypeToFilter
    \/ SelectAndSearch
    \/ QuickPickDelete
    \/ QuickPickClose

Spec == Init /\ [][Next]_vars

\* saveFilter called with any filter and any scope argument, as its signature
\* allows (the commands only ever pass no scope or the filter's own scope).
SaveFilterCall ==
    /\ CanRun
    /\ \E n \in {NameA, NameB}, own \in {"undef", "global", "workspace"},
          scope \in {"undef", "global", "workspace"} :
        SaveFilterStep("saveFilter", SearchFilter(n, PatB, Empty, own, "undef"), scope, {})

\* The store functions driven directly: the migration, saveFilter and the delete
\* command.
NextApi ==
    \/ Activate
    \/ SaveFilterCall
    \/ DeleteFilter

SpecApi == Init /\ [][NextApi]_vars

\* The edit and delete commands of an installation, without the commands
\* that add filters.
NextEdit ==
    \/ Activate
    \/ UserSetEnabled
    \/ EditFilter
    \/ DeleteFilter

SpecEdit == Init /\ [][NextEdit]_vars

\* ------------------------------------------- the store functions on their own

\* settings.json and the workspace file are plain files that the user edits:
\* the values the load functions may find there, entries with any scope value
\* included.
StoredGlobalLists ==
    {<<>>,
     <<SearchFilter(NameA, PatA, Empty, "global", "undef")>>,
     <<SearchFilter(NameA, PatA, Empty, "undef", "undef"),
       SearchFilter(NameB, Empty, PatA, "workspace", "undef")>>}

StoredEnabledMaps == {EmptyMap, [n \in {NameA} |-> "false"]}

StoredFiles ==
    {NoFile, BadFile, UnreadableFile, NotListFile, FileOf(<<>>),
     FileOf(<<SearchFilter(NameA, PatA, Empty, "workspace", "undef")>>),
     FileOf(<<SearchFilter(NameB, Empty, PatB, "global", "undef"),
              SearchFilter(NameA, PatA, Empty, "undef", "false")>>)}

\* Lists handed to the two save functions.
FilterLists ==
    {<<>>,
     <<SearchFilter(NameB, PatB, Empty, "workspace", "undef"),
       SearchFilter(NameA, Empty, PatB, "workspace", "true")>>,
     <<SearchFilter(NameB, PatB, Empty, "global", "false"),
       SearchFilter(NameA, PatA, PatB, "workspace", "undef"),
       SearchFilter(NameA, Empty, PatB, "undef", "undef")>>,
     <<SearchFilter(NameA, PatB, Empty, "undef", "true"),
       SearchFilter(NameB, Empty, Empty, "global", "undef")>>}

\* The record of one call of a store function.
StoreCall(cmd, arg, ret, result) ==
    [cmd |-> cmd, arg |-> arg, ret |-> ret, result |-> result]

InitStore ==
    /\ globalFilters \in StoredGlobalLists
    /\ globalFiltersEnabled \in StoredEnabledMaps
    /\ legacy = <<>>
    /\ hasWorkspace \in BOOLEAN
    /\ projectFile \in (IF hasWorkspace THEN StoredFiles ELSE {NoFile})
    /\ active = TRUE
    /\ quickPick = ClosedQuickPick
    /\ last = StoreCall("init", <<>>, "none", <<>>)
    /\ ops = 0

LoadGlobalCall ==
    /\ CanRun
    /\ last' = StoreCall("loadGlobalFilters", <<>>, "none", loadGlobalFilters)
    /\ ops' = ops + 1
    /\ UNCHANGED <<globalFilters, globalFiltersEnabled, legacy, projectFile,
                   hasWorkspace, active, quickPick>>

SaveGlobalCall ==
    /\ CanRun
    /\ \E filters \in FilterLists, w \in WriteOutcomes("global") :
        LET r == saveGlobalFilters(filters, w)
        IN  /\ globalFilters' = r.gf
            /\ globalFiltersEnabled' = r.en
            /\ last' = StoreCall("saveGlobalFilters", filters, BoolStr(r.ok), <<>>)
    /\ ops' = ops + 1
    /\ UNCHANGED <<legacy, projectFile, hasWorkspace, active, quickPick>>

LoadProjectCall ==
    /\ CanRun
    /\ last' = StoreCall("loadProjectFilters", <<>>, "none", loadProjectFilters)
    /\ ops' = ops + 1
    /\ UNCHANGED <<globalFilters, globalFiltersEnabled, legacy, projectFile,
                   hasWorkspace, active, quickPick>>

SaveProjectCall ==
    /\ CanRun
    /\ \E filters \in FilterLists, w \in WriteOutcomes("workspace") :
        LET r == saveProjectFilters(filters, w)
        IN  /\ projectFile' = r.pf
            /\ last' = StoreCall("saveProjectFilters", filters, BoolStr(r.ok), <<>>)
    /\ ops' = ops + 1
    /\ UNCHANGED <<globalFilters, globalFiltersEnabled, legacy,
                   hasWorkspace, active, quickPick>>

NextStore ==
    \/ LoadGlobalCall
    \/ SaveGlobalCall
    \/ LoadProjectCall
    \/ SaveProjectCall

SpecStore == InitStore /\ [][NextStore]_vars

\* ----------------------------------------------------- appendToPattern alone

\* Longest existing pattern handed to appendToPattern.
MaxPatLen == 4

PatternChars == {"a", "b", ",", " "}

RECURSIVE StringsUpTo(_)
StringsUpTo(n) ==
    IF n = 0 THEN {<<>>}
    ELSE LET shorter == StringsUpTo(n - 1)
         IN  shorter \cup {Append(t, c) : t \in {u \in shorter : Len(u) = n - 1},
                                           c \in PatternChars}

\* The existing patterns: every text of up to MaxPatLen characters, and none.
ExistingPatterns == StringsUpTo(MaxPatLen) \cup {NoAnswer}

\* The patterns to add.
PatternsToAdd == {PatA, PatB, PatA \o PatB}

PatternCall(existing, toAdd, result) ==
    [cmd |-> "appendToPattern", existing |-> existing, toAdd |-> toAdd, result |-> result]

InitPattern ==
    /\ globalFilters = <<>>
    /\ globalFiltersEnabled = EmptyMap
    /\ legacy = <<>>
    /\ hasWorkspace = FALSE
    /\ projectFile = NoFile
    /\ active = TRUE
    /\ quickPick = ClosedQuickPick
    /\ last = [cmd |-> "init", existing |-> <<>>, toAdd |-> <<>>, result |-> <<>>]
    /\ ops = 0

\* The first call takes a stored pattern; a later call takes the pattern the
\* call before it returned, as the loops over the selected items do.
AppendCall ==
    /\ CanRun
    /\ \E existing \in (IF ops = 0 THEN ExistingPatterns ELSE {last.result}),
          toAdd \in PatternsToAdd :
        last' = PatternCall(existing, toAdd, appendToPattern(existing, toAdd))
    /\ ops' = ops + 1
    /\ UNCHANGED <<globalFilters, globalFiltersEnabled, legacy, projectFile,
                   hasWorkspace, active, quickPick>>

SpecPattern == InitPattern /\ [][AppendCall]_vars

\* ------------------------------- migration in flight (94-124, 610-613, 290-308)

\* A call of saveGlobalFilters that has computed what it writes and awaits
\* its settings updates: pc is "idle" before the call, "filters" before the
\* update of globalFilters (84), "enabled" before the update of
\* globalFiltersEnabled (85), "done" after; during is where the migration
\* stood when the call began.
PendingSave(pc, gf, en, name, during, ret) ==
    [pc |-> pc, gf |-> gf, en |-> en, name |-> name, during |-> during, ret |-> ret]

NoPendingSave == PendingSave("idle", <<>>, EmptyMap, Empty, "idle", "none")

RaceRecord(cmd, migration, save) == [cmd |-> cmd, migration |-> migration, save |-> save]

RaceSettings == {SettingsNone, SettingsA}

InitRace ==
    /\ legacy \in {LegacyV1, LegacyV2}
    /\ \E st \in RaceSettings :
        /\ globalFilters = st.gf
        /\ globalFiltersEnabled = st.en
    /\ hasWorkspace = TRUE
    /\ projectFile = NoFile
    /\ active = FALSE
    /\ quickPick = ClosedQuickPick
    /\ last = RaceRecord("init", NoPendingSave, NoPendingSave)
    /\ ops = 0

\* activate (604-613): the migration is called and not awaited. It runs up to
\* its first await, the update of globalFilters inside saveGlobalFilters, or
\* returns before it when there is nothing to migrate.
ActivateAsync ==
    /\ ~active
    /\ active' = TRUE
    /\ LET skipped == migrateGlobalFiltersFromState("ok").ret = "none"
           filtersToMigrate ==
                [i \in DOMAIN legacy |-> [legacy[i] EXCEPT !.enabled = EnabledOrTrue(legacy[i])]]
           r == saveGlobalFilters(filtersToMigrate, "ok")
       IN  last' = RaceRecord("activate",
                              IF skipped
                              THEN PendingSave("done", <<>>, EmptyMap, Empty, "idle", "none")
                              ELSE PendingSave("filters", r.gf, r.en, Empty, "idle", "none"),
                              last.save)
    /\ UNCHANGED <<globalFilters, globalFiltersEnabled, legacy, projectFile,
                   hasWorkspace, quickPick, ops>>

\* The update of globalFilters of a pending call settles: it is applied, or
\* it rejects and the call returns false (86-89).
UpdateFilters(p, applied) ==
    IF applied THEN [p EXCEPT !.pc = "enabled"] ELSE [p EXCEPT !.pc = "done", !.ret = "false"]

\* The update of globalFiltersEnabled of a pending call settles.
UpdateEnabled(p, applied) ==
    [p EXCEPT !.pc = "done", !.ret = IF applied THEN "true" ELSE "false"]

MigrationUpdateFilters ==
    /\ last.migration.pc = "filters"
    /\ \E applied \in BOOLEAN :
        /\ globalFilters' = IF applied THEN last.migration.gf ELSE globalFilters
        /\ last' = [last EXCEPT !.cmd = "migrationUpdate",
                                 !.migration = UpdateFilters(@, applied)]
    /\ UNCHANGED <<globalFiltersEnabled, legacy, projectFile, hasWorkspace, active,
                   quickPick, ops>>

MigrationUpdateEnabled ==
    /\ last.migration.pc = "enabled"
    /\ \E applied \in BOOLEAN :
        /\ globalFiltersEnabled' = IF applied THEN last.migration.en ELSE globalFiltersEnabled
        /\ last' = [last EXCEPT !.cmd = "migrationUpdate",
                                 !.migration = UpdateEnabled(@, applied)]
    /\ UNCHANGED <<globalFilters, legacy, projectFile, hasWorkspace, active,
                   quickPick, ops>>

\* A command calls saveFilter with a global filter and the user accepts an
\* overwrite: saveFilter loads the global filters, puts the filter into the
\* list and calls saveGlobalFilters, which runs up to its first await.
SaveFilterBegin ==
    /\ CanRun
    /\ last.save.pc \in {"idle", "done"}
    /\ \E n \in {NameA, NameB} :
        LET r == saveFilter(SearchFilter(n, PatB, Empty, "global", "undef"),
                            "global", "undef", "Yes", "ok")
        IN  last' = RaceRecord("saveFilter", last.migration,
                               PendingSave("filters", r.gf, r.en, n,
                                           last.migration.pc, "none"))
    /\ ops' = ops + 1
    /\ UNCHANGED <<globalFilters, globalFiltersEnabled, legacy, projectFile,
                   hasWorkspace, active, quickPick>>

SaveUpdateFilters ==
    /\ last.save.pc = "filters"
    /\ \E applied \in BOOLEAN :
        /\ globalFilters' = IF applied THEN last.save.gf ELSE globalFilters
        /\ last' = [last EXCEPT !.cmd = "saveUpdate", !.save = UpdateFilters(@, applied)]
    /\ UNCHANGED <<globalFiltersEnabled, legacy, projectFile, hasWorkspace, active,
                   quickPick, ops>>

SaveUpdateEnabled ==
    /\ last.save.pc = "enabled"
    /\ \E applied \in BOOLEAN :
        /\ globalFiltersEnabled' = IF applied THEN last.save.en ELSE globalFiltersEnabled
        /\ last' = [last EXCEPT !.cmd = "saveUpdate", !.save = UpdateEnabled(@, applied)]
    /\ UNCHANGED <<globalFilters, legacy, projectFile, hasWorkspace, active,
                   quickPick, ops>>

NextRace ==
    \/ ActivateAsync
    \/ MigrationUpdateFilters
    \/ MigrationUpdateEnabled
    \/ SaveFilterBegin
    \/ SaveUpdateFilters
    \/ SaveUpdateEnabled

SpecRace == InitRace /\ [][NextRace]_vars

\* ------------------------------- adding to an existing filter (425-472, 555-599)

\* Installations whose filters hold pattern lists, one of them typed by hand
\* with blanks after the commas.
AppendSettings ==
    {[gf |-> <<SearchFilter(NameA, inc, Empty, "global", "undef")>>,
      en |-> [n \in {NameA} |-> "true"]] :
        inc \in {Join(<<PatA, PatB>>), <<"a", ",", " ", "b">>, <<"a", ",", " ">>, Empty}}

AppendFile ==
    FileOf(<<SearchFilter(NameB, PatB, Join(<<PatB, PatA>>), "workspace", "undef")>>)

\* Explorer selections, already turned into candidate patterns.
AppendSelections == {<<PatA>>, <<PatB>>, <<PatA, PatB>>, <<PatB, PatA \o PatB>>}

\* The record of one run of a context-menu command on an existing filter.
AppendRecord(cmd, targetPattern, cands, filter, batch, method, message, ret) ==
    [cmd |-> cmd, target |-> targetPattern, cands |-> cands, filter |-> filter,
     addedCount |-> batch.addedCount, method |-> method, message |-> message, ret |-> ret]

InitAppend ==
    /\ \E st \in AppendSettings :
        /\ globalFilters = st.gf
        /\ globalFiltersEnabled = st.en
    /\ legacy = <<>>
    /\ hasWorkspace = TRUE
    /\ projectFile = AppendFile
    /\ active = TRUE
    /\ quickPick = ClosedQuickPick
    /\ last = [cmd |-> "init", target |-> "none", cands |-> <<>>,
               filter |-> SearchFilter(Empty, Empty, Empty, "undef", "undef"),
               addedCount |-> 0, method |-> "none", message |-> "none", ret |-> "none"]
    /\ ops = 0

\* Variant: Overwrite keeps the existing pattern and appends to it.
ChosenPattern_AlwaysAppend(action, batch, cands) == batch.pattern

\* (addMethod.action === 'append') ? combinedPatternAppend : combinedPatternOverwrite
ChosenPattern(action, batch, cands) ==
    IF action = "append" THEN batch.pattern ELSE Join(cands)

\* The branch of a context-menu handler that adds the candidates to the
\* filter picked in the list. checksFirst: the handler returns with the
\* message "No changes made" before the picker when nothing was added
\* (572-576); the other handler only leaves Append out of the picker.
AppendToExisting(cmd, checksFirst) ==
    /\ ops' = ops + 1
    /\ UNCHANGED <<legacy, hasWorkspace, active, quickPick>>
    /\ \E targetPattern \in {"include", "exclude"}, cands \in AppendSelections,
          pick \in DOMAIN loadAllFilters :
        LET filterToUpdate == loadAllFilters[pick]
            batch == BatchAppend(TargetOf(filterToUpdate, targetPattern), cands)
            rec(method, message, ret) ==
                AppendRecord(cmd, targetPattern, cands, filterToUpdate, batch,
                             method, message, ret)
        IN  IF checksFirst /\ batch.addedCount = 0
            THEN /\ last' = rec("none", "noChanges", "none")
                 /\ UNCHANGED stores
            ELSE \E addMethod \in (IF batch.addedCount > 0 THEN {"append"} ELSE {})
                                      \cup {"overwrite", "undef"} :
                 IF addMethod = "undef"
                 THEN /\ last' = rec("undef", "none", "none")
                      /\ UNCHANGED stores
                 ELSE \E owAns \in OverwriteAnswers, w \in WriteOutcomes(filterToUpdate.scope) :
                      LET r == saveFilter(
                                  WithTarget(filterToUpdate, targetPattern,
                                             ChosenPattern(addMethod, batch, cands)),
                                  filterToUpdate.scope, "undef", owAns, w)
                      IN  /\ globalFilters' = r.gf
                          /\ globalFiltersEnabled' = r.en
                          /\ projectFile' = r.pf
                          /\ last' = rec(addMethod, "none", BoolStr(r.ret))

AppendFolderToExisting ==
    /\ CanRun
    /\ AppendToExisting("addFolder", FALSE)

AppendFileTypeToExisting ==
    /\ CanRun
    /\ AppendToExisting("addFileType", TRUE)

NextAppend ==
    \/ AppendFolderToExisting
    \/ AppendFileTypeToExisting

SpecAppend == InitAppend /\ [][NextAppend]_vars

\* ------------------------------------------------------------------ claims

HasKey(filters, n, sc) ==
    \E i \in DOMAIN filters : filters[i].name = n /\ filters[i].scope = sc

OtherScope(sc) == IF sc = "global" THEN "workspace" ELSE "global"

C2_DeclinedOverwriteWritesNothing ==
    [][(/\ last'.call = "saveFilter"
        /\ ops' = ops + 1
        /\ HasKey(loadAllFilters, last'.name, last'.scope)
        /\ last'.owAns # "Yes")
       => (last'.ret = "false" /\ UNCHANGED stores)]_vars

C2_Witness ==
    /\ last.call = "saveFilter"
    /\ last.askedOw
    /\ last.owAns \in {"No", "undef"}
    /\ last.ret = "false"
    /\ HasKey(loadAllFilters, last.name, last.scope)

\* C3: after deleteFilter(F) has returned true, loadAllFilters returns no
\* filter with F's name and F's scope.
C3_DeletedFilterIsGone ==
    (last.call = "deleteFilter" /\ last.ret = "true")
        => ~HasKey(loadAllFilters, last.name, last.scope)

\* C4: a successful saveFilter of F keeps every filter with another
\* (name, scope) in the merged view, with the same include, exclude and
\* enabled values.
C4_SaveKeepsOtherFilters ==
    [][(last'.call = "saveFilter" /\ ops' = ops + 1 /\ last'.ret = "true")
       => \A i \in DOMAIN loadAllFilters :
            ~(loadAllFilters[i].name = last'.name /\ loadAllFilters[i].scope = last'.scope)
                => \E j \in DOMAIN loadAllFilters' :
                        loadAllFilters'[j] = loadAllFilters[i]]_vars

\* C5 as stated: a command in which any prompt was dismissed writes nothing.
C5_AnyDismissalWritesNothing ==
    [][last'.dismissed # {} => UNCHANGED stores]_vars

\* The prompts whose dismissal ends the command.
AbortingPrompts == {"pick", "name", "method", "confirm", "scope", "overwrite"}

\* C5 amended: a command in which the filter picker, a name prompt, the
\* append/overwrite picker, the delete confirmation, the scope prompt or the
\* overwrite prompt was dismissed writes nothing and saves nothing; a
\* dismissed pattern prompt does not end the command.
C5_AbortingDismissalWritesNothing ==
    [][(last'.dismissed \cap AbortingPrompts # {})
       => (UNCHANGED stores /\ last'.ret # "true")]_vars

C5_Witness ==
    /\ last.cmd = "addFilter"
    /\ last.call = "saveFilter"
    /\ "scope" \in last.dismissed
    /\ last.ret = "false"

ExpectedScope ==
    IF last.argScope # "undef" THEN last.argScope
    ELSE IF last.ownScope # "undef" THEN last.ownScope
    ELSE last.scopeAns

\* C7: saveFilter stores the filter under the scope argument when given,
\* else under the filter's own scope, else under the scope picked in the
\* prompt; the prompt is shown only when both are absent, and the store of
\* any other scope is not written.
C7_ScopePrecedence ==
    [][(last'.call = "saveFilter" /\ ops' = ops + 1)
       => /\ last'.askedScope <=> (last'.argScope = "undef" /\ last'.ownScope = "undef")
          /\ ExpectedScope' = "undef" => (last'.ret = "false" /\ UNCHANGED stores)
          /\ ExpectedScope' = "global" => projectFile' = projectFile
          /\ ExpectedScope' = "workspace"
                => UNCHANGED <<globalFilters, globalFiltersEnabled>>
          /\ (last'.ret = "true" /\ ExpectedScope' = "global")
                => last'.name \in Names(globalFilters')
          /\ (last'.ret = "true" /\ ExpectedScope' = "workspace")
                => last'.name \in Names(projectFile'.entries)]_vars

\* saveFilter was given a scope argument that differs from the filter's own
\* scope and has saved.
C7_Witness ==
    /\ last.call = "saveFilter"
    /\ last.argScope = "workspace"
    /\ last.ownScope = "global"
    /\ last.ret = "true"
    /\ last.name \in Names(projectFile.entries)

\* C8 as stated: loadAllFilters is the list of loadGlobalFilters followed by
\* the list of loadProjectFilters.
C8_GlobalThenProject ==
    loadAllFilters = loadGlobalFilters \o loadProjectFilters

\* C8 amended: loadAllFilters is the global list followed by the list of
\* loadProjectFilters, where the global list is that of loadGlobalFilters
\* when it is not empty and otherwise the legacy blob with scope defaulted
\* to global.
C8_GlobalOrLegacyThenProject ==
    LET fromLegacy == [i \in DOMAIN legacy |->
                          [legacy[i] EXCEPT !.scope = IF @ = "undef" THEN "global" ELSE @]]
    IN  /\ globalFilters # <<>>
            => loadAllFilters = loadGlobalFilters \o loadProjectFilters
        /\ globalFilters = <<>>
            => loadAllFilters = fromLegacy \o loadProjectFilters

C8_Witness ==
    /\ active
    /\ globalFilters = <<>>
    /\ Len(legacy) > 0
    /\ Len(loadProjectFilters) > 0
    /\ Len(loadAllFilters) = Len(legacy) + Len(loadProjectFilters)

\* C9: the list that selectAndSearch offers holds every workspace filter
\* whatever its enabled value, and a global filter exactly when its enabled
\* value is not false.
C9_SelectionList ==
    quickPick.open
        => /\ \A i \in DOMAIN quickPick.items :
                \E j \in DOMAIN loadAllFilters : loadAllFilters[j] = quickPick.items[i]
           /\ \A j \in DOMAIN loadAllFilters :
                (\E i \in DOMAIN quickPick.items : quickPick.items[i] = loadAllFilters[j])
                    <=> (loadAllFilters[j].scope = "workspace"
                         \/ loadAllFilters[j].enabled # "false")

\* The list was refreshed after a delete; it shows a workspace filter whose
\* record says enabled false and hides a disabled global filter.
C9_Witness ==
    /\ quickPick.open
    /\ last.cmd = "quickPickDelete"
    /\ last.ret = "true"
    /\ \E i \in DOMAIN quickPick.items :
            quickPick.items[i].scope = "workspace" /\ quickPick.items[i].enabled = "false"
    /\ \E j \in DOMAIN loadAllFilters :
            loadAllFilters[j].scope = "global" /\ loadAllFilters[j].enabled = "false"

\* C10: a migration that starts with no global filter in the settings and
\* completes leaves loadGlobalFilters returning one filter per legacy
\* filter, in order, with the same name, include and exclude, scope global
\* and enabled true.
C10_MigrationCopiesLegacy ==
    [][(last'.cmd = "activate" /\ active' /\ ~(ops' = ops /\ active)
        /\ globalFilters = <<>> /\ last'.ret # "false")
       => /\ Len(loadGlobalFilters') = Len(legacy)
          /\ \A i \in DOMAIN legacy :
                /\ loadGlobalFilters'[i].name = legacy[i].name
                /\ loadGlobalFilters'[i].include = legacy[i].include
                /\ loadGlobalFilters'[i].exclude = legacy[i].exclude
                /\ loadGlobalFilters'[i].scope = "global"
                /\ loadGlobalFilters'[i].enabled = "true"]_vars

C10_Witness ==
    /\ last.cmd = "activate"
    /\ last.ret = "true"
    /\ Len(legacy) = 2
    /\ Len(loadGlobalFilters) = 2

\* A step in which activate runs the migration.
MigrationRuns == last'.cmd = "activate" /\ (~active \/ ops' = ops + 1)

\* C11: a migration that finds at least one global filter in the settings
\* writes neither globalFilters nor globalFiltersEnabled, whatever the legacy
\* blob holds.
C11_MigrationSkipsNonEmptySettings ==
    [][(MigrationRuns /\ Len(globalFilters) > 0)
       => (UNCHANGED <<globalFilters, globalFiltersEnabled>> /\ last'.ret = "none")]_vars

\* The migration was skipped although the legacy blob holds a filter whose
\* patterns differ from those of the settings.
C11_Witness ==
    /\ last.cmd = "activate"
    /\ last.ret = "none"
    /\ \E i \in DOMAIN legacy, j \in DOMAIN globalFilters :
            /\ legacy[i].name = globalFilters[j].name
            /\ legacy[i].include # globalFilters[j].include

C13_LegacyNeverWritten ==
    [][legacy' = legacy]_vars

\* A migration has saved the legacy filters and the blob still holds them.
C13_Witness ==
    /\ last.cmd = "activate"
    /\ last.ret = "true"
    /\ legacy # <<>>
    /\ Names(globalFilters) = Names(legacy)

\* C14: every filter that loadGlobalFilters returns has scope global.
C14_LoadedGlobalScope ==
    last.cmd = "loadGlobalFilters"
        => \A i \in DOMAIN last.result : last.result[i].scope = "global"

\* The last handler has written globalFilters through saveGlobalFilters.
GlobalWriteDone ==
    /\ last.ret = "true"
    /\ \/ last.cmd = "activate"
       \/ last.call \in {"saveFilter", "edit", "deleteFilter"} /\ last.scope = "global"

\* C15 as stated: an entry written to globalFilters holds name, include and
\* exclude only, neither an enabled nor a scope field.
C15_OnlyNameIncludeExclude ==
    GlobalWriteDone
        => \A i \in DOMAIN globalFilters :
                globalFilters[i].enabled = "undef" /\ globalFilters[i].scope = "undef"

\* C15 amended: an entry written to globalFilters never holds an enabled
\* field; it holds the scope field of the filter it was given, whose value is
\* global when present.
C15_NoEnabledField ==
    GlobalWriteDone
        => \A i \in DOMAIN globalFilters :
                /\ globalFilters[i].enabled = "undef"
                /\ globalFilters[i].scope \in {"undef", "global"}

\* A global filter was saved next to a disabled one: the enabled values went
\* to globalFiltersEnabled and the entries carry their scope.
C15_Witness ==
    /\ GlobalWriteDone
    /\ last.call = "saveFilter"
    /\ \E n \in DOMAIN globalFiltersEnabled : globalFiltersEnabled[n] = "false"
    /\ \E i \in DOMAIN globalFilters : globalFilters[i].scope = "global"

\* C16: a saveGlobalFilters that returns false has changed neither
\* globalFilters nor globalFiltersEnabled.
C16_FailedSaveChangesNothing ==
    [][(last'.cmd = "saveGlobalFilters" /\ ops' = ops + 1 /\ last'.ret = "false")
       => UNCHANGED <<globalFilters, globalFiltersEnabled>>]_vars

AllWorkspace(filters) == \A i \in DOMAIN filters : filters[i].scope = "workspace"

\* C18: after a successful saveProjectFilters of a list of workspace
\* filters, loadProjectFilters returns its filters in order with the same
\* name, include and exclude and scope workspace; and loadProjectFilters
\* returns every entry with scope workspace whatever scope the file gives it.
C18_ProjectRoundTrip ==
    /\ (last.cmd = "saveProjectFilters" /\ last.ret = "true" /\ AllWorkspace(last.arg))
            => /\ Len(loadProjectFilters) = Len(last.arg)
               /\ \A i \in DOMAIN last.arg :
                    /\ loadProjectFilters[i].name = last.arg[i].name
                    /\ loadProjectFilters[i].include = last.arg[i].include
                    /\ loadProjectFilters[i].exclude = last.arg[i].exclude
                    /\ loadProjectFilters[i].scope = "workspace"
    /\ \A i \in DOMAIN loadProjectFilters : loadProjectFilters[i].scope = "workspace"

\* A list of two workspace filters was saved and reads back.
C18_Witness ==
    /\ last.cmd = "saveProjectFilters"
    /\ last.ret = "true"
    /\ AllWorkspace(last.arg)
    /\ Len(last.arg) = 2
    /\ Len(loadProjectFilters) = 2

ScopeIsWorkspace(f) == f.scope = "workspace"

\* C19: a successful saveProjectFilters leaves in the file exactly the
\* filters of its argument whose scope is workspace, in order; a failed one,
\* and every one without a workspace folder, leaves the file as it was.
C19_SaveProjectReplacesFile ==
    [][(last'.cmd = "saveProjectFilters" /\ ops' = ops + 1)
       => /\ last'.ret = "true"
                => projectFile' = [kind |-> "list",
                                   entries |-> SelectSeq(last'.arg, ScopeIsWorkspace)]
          /\ last'.ret = "false" => projectFile' = projectFile
          /\ ~hasWorkspace => last'.ret = "false"]_vars

\* A list with a global, a workspace and an unscoped filter was saved over
\* a file: the file holds the workspace filter alone.
C19_Witness ==
    /\ last.cmd = "saveProjectFilters"
    /\ last.ret = "true"
    /\ Len(last.arg) = 3
    /\ Len(projectFile.entries) = 1
    /\ projectFile.entries[1].scope = "workspace"

\* C20 as stated: a record written to the workspace file has no scope field.
C20_NoScopeInFile ==
    (last.cmd = "saveProjectFilters" /\ last.ret = "true")
        => \A i \in DOMAIN projectFile.entries : projectFile.entries[i].scope = "undef"

\* C20 amended: every record written to the workspace file carries the
\* scope field with the value workspace, next to the other fields of the
\* filter (an enabled field included when the filter has one).
C20_ScopeWorkspaceInFile ==
    (last.cmd = "saveProjectFilters" /\ last.ret = "true")
        => \A i \in DOMAIN projectFile.entries :
                /\ projectFile.entries[i].scope = "workspace"
                /\ \E j \in DOMAIN last.arg : projectFile.entries[i] = last.arg[j]

\* Two workspace filters were written, one of them with an enabled field.
C20_Witness ==
    /\ last.cmd = "saveProjectFilters"
    /\ last.ret = "true"
    /\ Len(projectFile.entries) = 2
    /\ \E i \in DOMAIN projectFile.entries : projectFile.entries[i].enabled = "true"

\* The comma-separated segments of a pattern, each trimmed.
TrimmedSegments(p) == LET parts == Split(p) IN [i \in DOMAIN parts |-> Trim(parts[i])]

\* The trimmed segments that are not empty.
Segments(p) == SelectSeq(TrimmedSegments(p), LAMBDA x : x # <<>>)

RECURSIVE Dedup(_)
Dedup(list) ==
    IF list = <<>> THEN <<>>
    ELSE LET front == Dedup(SubSeq(list, 1, Len(list) - 1))
             x == list[Len(list)]
         IN  IF \E i \in DOMAIN front : front[i] = x THEN front ELSE Append(front, x)

Occurrences(list, x) == Cardinality({i \in DOMAIN list : list[i] = x})

\* The last call was given an existing pattern that holds the pattern to add.
AddsPresent ==
    /\ last.cmd = "appendToPattern"
    /\ last.existing # NoAnswer
    /\ \E i \in DOMAIN TrimmedSegments(last.existing) :
            TrimmedSegments(last.existing)[i] = last.toAdd

\* The last call was given a non-blank existing pattern without the pattern
\* to add.
AddsAbsent ==
    /\ last.cmd = "appendToPattern"
    /\ last.existing # NoAnswer
    /\ Trim(last.existing) # <<>>
    /\ \A i \in DOMAIN TrimmedSegments(last.existing) :
            TrimmedSegments(last.existing)[i] # last.toAdd

\* C22 as stated: appending a pattern that the existing pattern holds
\* returns the existing pattern itself.
C22_AppendPresentReturnsSame ==
    AddsPresent => last.result = last.existing

\* C22 amended: appending a pattern that the existing pattern holds returns
\* the non-empty trimmed segments of the existing pattern joined by commas,
\* in their order, and so the existing pattern itself when it has no blank
\* around a segment and no empty segment.
C22_AppendPresentReturnsNormalised ==
    AddsPresent
        => /\ last.result = Join(Segments(last.existing))
           /\ (Split(last.existing) = Segments(last.existing))
                => last.result = last.existing

\* "a,b" was given with "b" and came back as it was.
C22_Witness ==
    /\ AddsPresent
    /\ Len(Segments(last.existing)) = 2
    /\ last.toAdd = PatB
    /\ last.result = last.existing

\* C23 as stated: appending an absent pattern to a non-blank pattern gives
\* the trimmed, de-duplicated, comma-joined segments followed by a comma and
\* the pattern, which the result holds once.
C23_AppendAbsentToDeduped ==
    AddsAbsent
        => /\ last.result = Join(Dedup(Segments(last.existing))) \o <<",">> \o last.toAdd
           /\ Occurrences(Split(last.result), last.toAdd) = 1

\* C23 amended: appending an absent pattern to a non-blank pattern gives
\* the non-empty trimmed segments, repeated ones included, followed by the
\* pattern, joined by commas; the result holds the pattern once.
C23_AppendAbsentToSegments ==
    AddsAbsent
        => /\ last.result = Join(Segments(last.existing) \o <<last.toAdd>>)
           /\ Occurrences(Split(last.result), last.toAdd) = 1

\* " a,a" was given with "b": both a segments are kept, trimmed.
C23_Witness ==
    /\ AddsAbsent
    /\ last.toAdd = PatB
    /\ Segments(last.existing) = <<PatA, PatA>>
    /\ last.existing # Join(Segments(last.existing))
    /\ last.result = Join(<<PatA, PatA, PatB>>)

\* C30: appending to a pattern that is absent, empty or blank returns the
\* pattern to add.
C30_AppendToBlank ==
    (/\ last.cmd = "appendToPattern"
     /\ (last.existing = NoAnswer \/ \A i \in DOMAIN last.existing : last.existing[i] = " "))
        => last.result = last.toAdd

\* A pattern of blanks alone was given.
C30_Witness ==
    /\ last.cmd = "appendToPattern"
    /\ Len(last.existing) = 2
    /\ \A i \in DOMAIN last.existing : last.existing[i] = " "
    /\ last.result = last.toAdd

\* The last handler has written the workspace file.
WorkspaceWriteDone ==
    /\ last.ret = "true"
    /\ last.call \in {"saveFilter", "edit", "deleteFilter"}
    /\ last.scope = "workspace"

\* The records of a file that carry an enabled field.
WithEnabledField(file) == {i \in DOMAIN file.entries : file.entries[i].enabled # "undef"}

AllPresent(cands, pattern) ==
    \A k \in DOMAIN cands :
        \E i \in DOMAIN TrimmedSegments(pattern) : TrimmedSegments(pattern)[i] = cands[k]

\* A step of a context-menu command on an existing filter whose target
\* pattern holds every candidate.
AppendsNothingNew ==
    /\ last'.cmd \in {"addFolder", "addFileType"}
    /\ ops' = ops + 1
    /\ AllPresent(last'.cands, TargetOf(last'.filter, last'.target))

\* C24: when the target pattern holds every candidate, the command reports
\* that no changes were made and writes no store.
C24_AllPresentReportsNoChange ==
    [][AppendsNothingNew => (last'.message = "noChanges" /\ UNCHANGED stores)]_vars

\* A step in which the edit command has renamed a filter and saved it.
RenameDone ==
    /\ last'.call = "edit"
    /\ last'.ret = "true"
    /\ last'.from # last'.name
    /\ ops' = ops + 1

\* after is before with the filter at one position renamed from a to b, its
\* scope kept, and holds no filter named a.
RenamedInPlace(before, after, a, b) ==
    /\ Len(after) = Len(before)
    /\ \E i \in DOMAIN before :
            /\ before[i].name = a
            /\ after[i].name = b
            /\ after[i].scope = before[i].scope
    /\ \A i \in DOMAIN after : after[i].name # a

\* C25: a successful edit that renames a filter leaves the store of its
\* scope with the new name at the position of the old one, without the old
\* name, with as many filters as before and with the scope kept.
C25_RenameInPlace ==
    [][RenameDone
       => /\ last'.scope = "workspace"
                => RenamedInPlace(loadProjectFilters, loadProjectFilters',
                                  last'.from, last'.name)
          /\ last'.scope = "global"
                => RenamedInPlace(loadGlobalFilters, loadGlobalFilters',
                                  last'.from, last'.name)]_vars

\* C26: the edit command stops with the conflict message exactly when the
\* name was changed to one that a filter of the same scope has, and then
\* writes no store; a filter of the other scope with that name does not
\* stop it.
C26_RenameCollisionIsPerScope ==
    [][(last'.cmd = "editFilter" /\ last'.call \in {"edit", "conflict"} /\ ops' = ops + 1)
       => /\ last'.call = "conflict"
                <=> (last'.from # last'.name
                     /\ HasKey(loadAllFilters, last'.name, last'.scope))
          /\ last'.call = "conflict" => UNCHANGED stores]_vars

\* A filter was renamed to the name of a filter of the other scope.
C26_Witness ==
    /\ last.call = "edit"
    /\ last.ret = "true"
    /\ last.from # last.name
    /\ HasKey(loadAllFilters, last.name, "global")
    /\ HasKey(loadAllFilters, last.name, "workspace")
    /\ ~HasKey(loadAllFilters, last.from, last.scope)

\* The filters of a list whose name is not n, in their order.
Without(filters, n) == SelectSeq(filters, LAMBDA f : f.name # n)

C28_SaveReturnsStoreResult ==
    [][(last'.call = "saveFilter" /\ ops' = ops + 1)
       => /\ last'.ret \in {"true", "false"}
          /\ (last'.ret = "true" /\ last'.scope = "global")
                => /\ last'.name \in Names(globalFilters')
                   /\ last'.name \in DOMAIN globalFiltersEnabled'
          /\ (last'.ret = "true" /\ last'.scope = "workspace")
                => /\ hasWorkspace
                   /\ last'.name \in Names(loadProjectFilters')
          /\ last'.ret = "false"
                => /\ projectFile' = projectFile
                   /\ globalFiltersEnabled' = globalFiltersEnabled
          /\ (last'.scope = "workspace" /\ ~hasWorkspace)
                => (last'.ret = "false" /\ UNCHANGED stores)]_vars

\* The project scope was picked in the scope prompt with no folder open.
C28_Witness ==
    /\ last.call = "saveFilter"
    /\ last.askedScope
    /\ last.scope = "workspace"
    /\ ~hasWorkspace
    /\ last.ret = "false"
    /\ projectFile = NoFile

\* C29: loadGlobalFilters gives a filter the enabled value that
\* globalFiltersEnabled holds for its name and true when it holds none; a
\* global filter that was just created is enabled and is in the list that
\* selectAndSearch offers.
C29_EnabledFromMap ==
    /\ \A i \in DOMAIN loadGlobalFilters :
            loadGlobalFilters[i].enabled =
                IF loadGlobalFilters[i].name \in DOMAIN globalFiltersEnabled
                THEN globalFiltersEnabled[loadGlobalFilters[i].name]
                ELSE "true"
    /\ (last.call = "saveFilter" /\ last.ret = "true" /\ last.scope = "global"
        /\ ~last.askedOw)
            => \E i \in DOMAIN visibleFilters :
                    /\ visibleFilters[i].name = last.name
                    /\ visibleFilters[i].scope = "global"
                    /\ visibleFilters[i].enabled = "true"

\* A global filter was created next to another one and got its own entry
\* in globalFiltersEnabled.
C29_Witness ==
    /\ last.call = "saveFilter"
    /\ last.ret = "true"
    /\ last.scope = "global"
    /\ ~last.askedOw
    /\ Len(globalFilters) > 1
    /\ last.name \in DOMAIN globalFiltersEnabled
    /\ \E i \in DOMAIN loadGlobalFilters :
            loadGlobalFilters[i].name = last.name /\ loadGlobalFilters[i].enabled = "true"

\* C31: in a context-menu command on an existing filter, addedCount is
\* greater than zero exactly when a candidate is absent from the trimmed
\* segments of the filter's target pattern.
C31_AddedCountIffAbsent ==
    last.cmd \in {"addFolder", "addFileType"}
        => (last.addedCount > 0
                <=> ~AllPresent(last.cands, TargetOf(last.filter, last.target)))

\* C32: after a save, an edit, a delete or a migration that wrote the
\* global store and returned true, globalFiltersEnabled has an entry for
\* exactly the names of the filters in globalFilters.
C32_EnabledKeysAreNames ==
    GlobalWriteDone => DOMAIN globalFiltersEnabled = Names(globalFilters)

\* A global filter was renamed: the map lost the entry of the old name,
\* which a workspace filter still has, and has one for the new name.
C32_Witness ==
    /\ last.call = "edit"
    /\ last.ret = "true"
    /\ last.scope = "global"
    /\ last.from # last.name
    /\ HasKey(loadProjectFilters, last.from, "workspace")
    /\ last.from \notin DOMAIN globalFiltersEnabled
    /\ last.name \in DOMAIN globalFiltersEnabled

\* The enabled state the settings hold for a name.
StoredEnabled(enabledMap, n) == IF n \in DOMAIN enabledMap THEN enabledMap[n] ELSE "true"

C34_NoWriteLost ==
    (/\ last.cmd \in {"migrationUpdate", "saveUpdate"}
     /\ last.migration.pc = "done" /\ last.migration.ret = "true"
     /\ last.save.pc = "done" /\ last.save.ret = "true"
     /\ last.save.during \in {"filters", "enabled"})
        => /\ last.save.name \in Names(globalFilters)
           /\ \A i \in DOMAIN legacy : legacy[i].name \in Names(globalFilters)

\* The names and scopes of a list of filters, in its order.
KeysOf(filters) == [i \in DOMAIN filters |-> <<filters[i].name, filters[i].scope>>]

\* No workspace filter stands before a global one.
GlobalFirst(filters) ==
    \A i, j \in DOMAIN filters :
        (i < j /\ filters[i].scope = "workspace") => filters[j].scope = "workspace"

\* C35: a successful saveFilter that overwrites a filter the list shows
\* leaves every filter of the list at its position, one that saves a new
\* filter puts it at the end of the list of its store, and the list has all
\* global filters before all workspace filters.
C35_SaveKeepsOrder ==
    [][(last'.call = "saveFilter" /\ last'.ret = "true" /\ ops' = ops + 1)
       => /\ last'.askedOw => KeysOf(loadAllFilters') = KeysOf(loadAllFilters)
          /\ (~last'.askedOw /\ last'.scope = "global")
                => KeysOf(loadGlobalFilters')
                       = Append(KeysOf(loadGlobalFilters), <<last'.name, "global">>)
          /\ (~last'.askedOw /\ last'.scope = "workspace")
                => KeysOf(loadProjectFilters')
                       = Append(KeysOf(loadProjectFilters), <<last'.name, "workspace">>)
          /\ GlobalFirst(loadAllFilters')]_vars

\* C36: after Overwrite was picked for an existing filter and the save
\* returned true, the list holds a filter of the same name and scope whose
\* target pattern is the comma-join of the candidates in their order and
\* whose other pattern is as it was.
C36_OverwriteReplacesTarget ==
    (last.cmd \in {"addFolder", "addFileType"} /\ last.method = "overwrite"
     /\ last.ret = "true")
        => \E i \in DOMAIN loadAllFilters :
                LET f == loadAllFilters[i]
                IN  /\ f.name = last.filter.name
                    /\ f.scope = last.filter.scope
                    /\ TargetOf(f, last.target) = Join(last.cands)
                    /\ TargetOf(f, OtherOf(last.target))
                           = TargetOf(last.filter, OtherOf(last.target))

\* Overwrite replaced a pattern that held a segment the selection does not
\* hold, in a filter whose other pattern is not empty.
C36_Witness ==
    /\ last.cmd \in {"addFolder", "addFileType"}
    /\ last.method = "overwrite"
    /\ last.ret = "true"
    /\ \E i \in DOMAIN Segments(TargetOf(last.filter, last.target)) :
            \A k \in DOMAIN last.cands :
                last.cands[k] # Segments(TargetOf(last.filter, last.target))[i]
    /\ TargetOf(last.filter, OtherOf(last.target)) # Empty
    /\ Len(last.cands) > 1

====
